---------------------------- MODULE Spec2Model ----------------------------
(***************************************************************************)
(* Model of the two smart pointers of the repository:                      *)
(*   SharedPtr<T>  (src/shared_ptr/shared.h, shared-inl.h)                 *)
(*   UniquePtr<T>  (src/unique_ptr/unique.h, unique-inl.h)                 *)
(*                                                                         *)
(* The heap is a set of control blocks 1..MaxBlocks.  A control block is   *)
(* the std::atomic<int> allocated by a SharedPtr constructor; the object   *)
(* handed to SharedPtr(pointer) together with block b is named b as well,  *)
(* so a non-null T* is the id of the block that was allocated with it.     *)
(* NULL (0) is nullptr.                                                    *)
(***************************************************************************)
EXTENDS Integers, FiniteSets, Sequences, TLC

\* ----- bounds ------------------------------------------------------------
MaxInst == 2        \* SharedPtr instance slots of the sequential client
MaxBlocks == 2      \* control blocks the sequential client may allocate
MaxCount == 3       \* copies stop once a control block's count reaches this
NThreads == 2       \* threads of the concurrent client
Copies == 2         \* loop iterations of each thread (num_copies)
MaxUInst == 3       \* UniquePtr instance slots
MaxUObjs == 3       \* objects handed to UniquePtr constructors

NULL == 0

Max(a, b) == IF a > b THEN a ELSE b

SeqInst == 1..MaxInst
Threads == 1..NThreads
MainInst == 1
ParamInst(t) == 1 + t
LocalInst(t) == 1 + NThreads + t
TmpInst == 2 + 2 * NThreads
AllInst == 1..Max(MaxInst, TmpInst)
\* the test client declares three instances, each allocating a block
Blocks == 1..Max(MaxBlocks, 3)
UInst == 1..MaxUInst
UObjs == 1..MaxUObjs

VARIABLES
    \* SharedPtr instances and heap
    live,        \* live[i]: instance i has been constructed and not destroyed
    pointer,     \* SharedPtr::pointer of instance i
    count,       \* SharedPtr::count of instance i (the control block, or NULL)
    cnt,         \* cnt[b]: value of the atomic int of control block b
    nblocks,     \* number of control blocks allocated so far
    kind,        \* kind[b]: which constructor allocated block b
    blockFrees,  \* blockFrees[b]: number of times `delete count` hit block b
    objFrees,    \* objFrees[b]: number of times `delete pointer` hit object b
    crashed,     \* a null control block was dereferenced
    lastOp,      \* history: the member function that ran last
    \* concurrent client (test.cpp ThreadSafty)
    mpc,         \* position of the main thread
    tpc,         \* position of each thread
    titer,       \* loop counter i of thread_func_copy
    \* UniquePtr instances and heap
    uLive,       \* uLive[i]: UniquePtr instance i is constructed and not destroyed
    uPointer,    \* UniquePtr::pointer of instance i
    uNext,       \* number of objects handed to UniquePtr constructors so far
    uFrees,      \* uFrees[o]: number of times a UniquePtr ran `delete` on object o
    uReleased,   \* uReleased[o]: release() has handed object o back to the caller
    uLastOp,     \* history: the member function that ran last, operands, return value
    \* test client (the chained-assignment and self-assignment tests)
    spc,         \* position of the SharedPtr test body
    upc          \* position of the UniquePtr test body

sharedVars == <<live, pointer, count, cnt, nblocks, kind, blockFrees, objFrees, crashed, lastOp>>
threadVars == <<mpc, tpc, titer>>
uniqueVars == <<uLive, uPointer, uNext, uFrees, uReleased, uLastOp>>
testVars == <<spc, upc>>
vars == <<sharedVars, threadVars, uniqueVars, testVars>>

UOp(o, d, s, r) == [op |-> o, dst |-> d, src |-> s, ret |-> r]

\* ----- initial values of the three variable groups -------------------------
SharedInit ==
    /\ live = [i \in AllInst |-> FALSE]
    /\ pointer = [i \in AllInst |-> NULL]
    /\ count = [i \in AllInst |-> NULL]
    /\ cnt = [b \in Blocks |-> 0]
    /\ nblocks = 0
    /\ kind = [b \in Blocks |-> "none"]
    /\ blockFrees = [b \in Blocks |-> 0]
    /\ objFrees = [b \in Blocks |-> 0]
    /\ crashed = FALSE
    /\ lastOp = "init"

ThreadInit ==
    /\ mpc = "construct"
    /\ tpc = [t \in Threads |-> "unborn"]
    /\ titer = [t \in Threads |-> 0]

UniqueInit ==
    /\ uLive = [i \in UInst |-> FALSE]
    /\ uPointer = [i \in UInst |-> NULL]
    /\ uNext = 0
    /\ uFrees = [o \in UObjs |-> 0]
    /\ uReleased = [o \in UObjs |-> FALSE]
    /\ uLastOp = UOp("init", 0, 0, NULL)

TestInit ==
    /\ spc = "start"
    /\ upc = "start"

\* ----- SharedPtr: pure parts ------------------------------------------------

\* int SharedPtr::use_count(): count ? count->load() : 0
UseCountOf(countv, cntv, i) == IF countv[i] # NULL THEN cntv[countv[i]] ELSE 0

UseCount(i) == UseCountOf(count, cnt, i)

\* T* SharedPtr::get()
Get(i) == pointer[i]

\* a copy that forgets the increment
FetchAddOmitted(v) == v

\* count->fetch_add(1): the value stored by the atomic increment
FetchAdd(v) == v + 1

\* a release that forgets the decrement
FetchSubOmitted(v) == v

\* count->fetch_sub(1): the value stored by the atomic decrement
FetchSub(v) == v - 1

\* a test on the value the decrement leaves behind, `fetch_sub(1) == 1`
FetchSubWasOne(prev) == prev = 1

\* a test that also fires for the owner before the last one
FetchSubWasAtMostOne(prev) == prev <= 1

\* `count->fetch_sub(1, acq_rel) == 0`: fetch_sub returns the value held
\* BEFORE the decrement, and that value is compared with 0
FetchSubWasZero(prev) == prev = 0

\* `if (count && count->fetch_sub(1) == 0) { delete pointer; delete count; }`
\* executed by instance i (destructor, reset, move assignment):
\* the count after the fetch_sub
ReleaseCnt(i) ==
    IF count[i] # NULL THEN [cnt EXCEPT ![count[i]] = FetchSub(@)] ELSE cnt

\* whether the condition of that if holds
ReleaseDeletes(i) == count[i] # NULL /\ FetchSubWasZero(cnt[count[i]])

\* `delete count;`
DeleteCount(i) == [blockFrees EXCEPT ![count[i]] = @ + 1]

\* `delete pointer;` (deleting nullptr does nothing)
DeletePointer(i) ==
    IF pointer[i] # NULL THEN [objFrees EXCEPT ![pointer[i]] = @ + 1] ELSE objFrees

ReleaseBlockFrees(i) == IF ReleaseDeletes(i) THEN DeleteCount(i) ELSE blockFrees

ReleaseObjFrees(i) == IF ReleaseDeletes(i) THEN DeletePointer(i) ELSE objFrees

\* ----- SharedPtr: operations (each is one whole member function) -----------

\* a default constructor whose block starts at 1, like SharedPtr(T*)'s
DefaultConstructCountsOne(i) ==
    /\ lastOp' = "default_construct"
    /\ ~crashed /\ ~live[i]
    /\ nblocks' = nblocks + 1
    /\ live' = [live EXCEPT ![i] = TRUE]
    /\ pointer' = [pointer EXCEPT ![i] = NULL]
    /\ count' = [count EXCEPT ![i] = nblocks + 1]
    /\ cnt' = [cnt EXCEPT ![nblocks + 1] = 1]
    /\ kind' = [kind EXCEPT ![nblocks + 1] = "default"]
    /\ UNCHANGED <<blockFrees, objFrees, crashed>>

\* SharedPtr(): pointer = nullptr; count = new atomic<int>(0)
DefaultConstruct(i) ==
    /\ lastOp' = "default_construct"
    /\ ~crashed /\ ~live[i]
    /\ nblocks' = nblocks + 1
    /\ live' = [live EXCEPT ![i] = TRUE]
    /\ pointer' = [pointer EXCEPT ![i] = NULL]
    /\ count' = [count EXCEPT ![i] = nblocks + 1]
    /\ cnt' = [cnt EXCEPT ![nblocks + 1] = 0]
    /\ kind' = [kind EXCEPT ![nblocks + 1] = "default"]
    /\ UNCHANGED <<blockFrees, objFrees, crashed>>

\* SharedPtr(T* pointer): this->pointer = pointer; count = new atomic<int>(1).
\* The caller hands over a fresh object, named after the block.
Construct(i) ==
    /\ lastOp' = "construct"
    /\ ~crashed /\ ~live[i]
    /\ nblocks' = nblocks + 1
    /\ live' = [live EXCEPT ![i] = TRUE]
    /\ pointer' = [pointer EXCEPT ![i] = nblocks + 1]
    /\ count' = [count EXCEPT ![i] = nblocks + 1]
    /\ cnt' = [cnt EXCEPT ![nblocks + 1] = 1]
    /\ kind' = [kind EXCEPT ![nblocks + 1] = "object"]
    /\ UNCHANGED <<blockFrees, objFrees, crashed>>

\* SharedPtr(SharedPtr& other): copies both fields, then count->fetch_add(1).
\* With other.count == nullptr the fetch_add dereferences a null pointer.
CopyConstruct(i, other) ==
    /\ lastOp' = "copy_construct"
    /\ ~crashed /\ ~live[i] /\ live[other]
    /\ IF count[other] = NULL
       THEN /\ crashed' = TRUE
            /\ UNCHANGED <<live, pointer, count, cnt, nblocks, kind, blockFrees, objFrees>>
       ELSE /\ live' = [live EXCEPT ![i] = TRUE]
            /\ pointer' = [pointer EXCEPT ![i] = pointer[other]]
            /\ count' = [count EXCEPT ![i] = count[other]]
            /\ cnt' = [cnt EXCEPT ![count[other]] = FetchAdd(@)]
            /\ UNCHANGED <<nblocks, kind, blockFrees, objFrees, crashed>>

\* a copy assignment without the `this == &other` check
CopyAssignNoSelfCheck(i, other) ==
    /\ lastOp' = IF i = other THEN "self_copy_assign" ELSE "copy_assign"
    /\ ~crashed /\ live[i] /\ live[other]
    /\ IF count[other] = NULL
       THEN /\ crashed' = TRUE
            /\ UNCHANGED <<live, pointer, count, cnt, nblocks, kind, blockFrees, objFrees>>
       ELSE /\ pointer' = [pointer EXCEPT ![i] = pointer[other]]
            /\ count' = [count EXCEPT ![i] = count[other]]
            /\ cnt' = [cnt EXCEPT ![count[other]] = FetchAdd(@)]
            /\ UNCHANGED <<live, nblocks, kind, blockFrees, objFrees, crashed>>

\* operator=(SharedPtr& other): self check, then the same three statements;
\* the block referenced before is neither decremented nor freed
CopyAssign(i, other) ==
    /\ lastOp' = IF i = other THEN "self_copy_assign" ELSE "copy_assign"
    /\ ~crashed /\ live[i] /\ live[other]
    /\ IF i = other
       THEN UNCHANGED <<live, pointer, count, cnt, nblocks, kind, blockFrees, objFrees, crashed>>
       ELSE IF count[other] = NULL
       THEN /\ crashed' = TRUE
            /\ UNCHANGED <<live, pointer, count, cnt, nblocks, kind, blockFrees, objFrees>>
       ELSE /\ pointer' = [pointer EXCEPT ![i] = pointer[other]]
            /\ count' = [count EXCEPT ![i] = count[other]]
            /\ cnt' = [cnt EXCEPT ![count[other]] = FetchAdd(@)]
            /\ UNCHANGED <<live, nblocks, kind, blockFrees, objFrees, crashed>>

\* SharedPtr(SharedPtr&& other): takes both fields, nulls other's
MoveConstruct(i, other) ==
    /\ lastOp' = "move_construct"
    /\ ~crashed /\ ~live[i] /\ live[other]
    /\ live' = [live EXCEPT ![i] = TRUE]
    /\ pointer' = [pointer EXCEPT ![i] = pointer[other], ![other] = NULL]
    /\ count' = [count EXCEPT ![i] = count[other], ![other] = NULL]
    /\ UNCHANGED <<cnt, nblocks, kind, blockFrees, objFrees, crashed>>

\* a move assignment that forgets to clear other.pointer
MoveAssignKeepsPointer(i, other) ==
    /\ lastOp' = IF i = other THEN "self_move_assign" ELSE "move_assign"
    /\ ~crashed /\ live[i] /\ live[other]
    /\ IF i = other
       THEN UNCHANGED <<live, pointer, count, cnt, nblocks, kind, blockFrees, objFrees, crashed>>
       ELSE /\ cnt' = ReleaseCnt(i)
            /\ blockFrees' = ReleaseBlockFrees(i)
            /\ objFrees' = ReleaseObjFrees(i)
            /\ pointer' = [pointer EXCEPT ![i] = pointer[other]]
            /\ count' = [count EXCEPT ![i] = count[other], ![other] = NULL]
            /\ UNCHANGED <<live, nblocks, kind, crashed>>

\* a move assignment that forgets to clear other.count
MoveAssignKeepsSource(i, other) ==
    /\ lastOp' = IF i = other THEN "self_move_assign" ELSE "move_assign"
    /\ ~crashed /\ live[i] /\ live[other]
    /\ IF i = other
       THEN UNCHANGED <<live, pointer, count, cnt, nblocks, kind, blockFrees, objFrees, crashed>>
       ELSE /\ cnt' = ReleaseCnt(i)
            /\ blockFrees' = ReleaseBlockFrees(i)
            /\ objFrees' = ReleaseObjFrees(i)
            /\ pointer' = [pointer EXCEPT ![i] = pointer[other], ![other] = NULL]
            /\ count' = [count EXCEPT ![i] = count[other]]
            /\ UNCHANGED <<live, nblocks, kind, crashed>>

\* operator=(SharedPtr&& other): self check, release, take both fields, null other's
MoveAssign(i, other) ==
    /\ lastOp' = IF i = other THEN "self_move_assign" ELSE "move_assign"
    /\ ~crashed /\ live[i] /\ live[other]
    /\ IF i = other
       THEN UNCHANGED <<live, pointer, count, cnt, nblocks, kind, blockFrees, objFrees, crashed>>
       ELSE /\ cnt' = ReleaseCnt(i)
            /\ blockFrees' = ReleaseBlockFrees(i)
            /\ objFrees' = ReleaseObjFrees(i)
            /\ pointer' = [pointer EXCEPT ![i] = pointer[other], ![other] = NULL]
            /\ count' = [count EXCEPT ![i] = count[other], ![other] = NULL]
            /\ UNCHANGED <<live, nblocks, kind, crashed>>

\* ~SharedPtr(): release; the instance is gone afterwards
Destroy(i) ==
    /\ lastOp' = "destroy"
    /\ ~crashed /\ live[i]
    /\ cnt' = ReleaseCnt(i)
    /\ blockFrees' = ReleaseBlockFrees(i)
    /\ objFrees' = ReleaseObjFrees(i)
    /\ live' = [live EXCEPT ![i] = FALSE]
    /\ pointer' = [pointer EXCEPT ![i] = NULL]
    /\ count' = [count EXCEPT ![i] = NULL]
    /\ UNCHANGED <<nblocks, kind, crashed>>

\* reset(): release; pointer = nullptr; count = nullptr
Reset(i) ==
    /\ lastOp' = "reset"
    /\ ~crashed /\ live[i]
    /\ cnt' = ReleaseCnt(i)
    /\ blockFrees' = ReleaseBlockFrees(i)
    /\ objFrees' = ReleaseObjFrees(i)
    /\ pointer' = [pointer EXCEPT ![i] = NULL]
    /\ count' = [count EXCEPT ![i] = NULL]
    /\ UNCHANGED <<live, nblocks, kind, crashed>>

\* ----- sequential client: any sequence of the operations --------------------
\* Assignments are between distinct instances here; p = p and p = std::move(p)
\* are run by the test client below.

\* the client stops allocating once MaxBlocks control blocks exist
HasRoom == nblocks < MaxBlocks

\* the client stops copying from `other` once its count has reached MaxCount
BelowCap(other) == count[other] # NULL => cnt[count[other]] < MaxCount

Init == SharedInit /\ ThreadInit /\ UniqueInit /\ TestInit

Next ==
    \/ \E i \in SeqInst : HasRoom /\ DefaultConstruct(i) /\ UNCHANGED <<threadVars, uniqueVars, testVars>>
    \/ \E i \in SeqInst : HasRoom /\ Construct(i) /\ UNCHANGED <<threadVars, uniqueVars, testVars>>
    \/ \E i, o \in SeqInst : BelowCap(o) /\ CopyConstruct(i, o) /\ UNCHANGED <<threadVars, uniqueVars, testVars>>
    \/ \E i, o \in SeqInst : i # o /\ BelowCap(o) /\ CopyAssign(i, o) /\ UNCHANGED <<threadVars, uniqueVars, testVars>>
    \/ \E i, o \in SeqInst : MoveConstruct(i, o) /\ UNCHANGED <<threadVars, uniqueVars, testVars>>
    \/ \E i, o \in SeqInst : i # o /\ MoveAssign(i, o) /\ UNCHANGED <<threadVars, uniqueVars, testVars>>
    \/ \E i \in SeqInst : Destroy(i) /\ UNCHANGED <<threadVars, uniqueVars, testVars>>
    \/ \E i \in SeqInst : Reset(i) /\ UNCHANGED <<threadVars, uniqueVars, testVars>>

Spec == Init /\ [][Next]_vars

TypeOK ==
    /\ nblocks \in 0..Max(MaxBlocks, 3)
    /\ \A i \in AllInst : pointer[i] \in 0..nblocks /\ count[i] \in 0..nblocks

\* ----- properties of the sequential client ---------------------------------

\* the live instances whose control-block reference is block b
Owners(b) == {i \in AllInst : live[i] /\ count[i] = b}

\* C1: an object handed to SharedPtr(pointer) and its control block are freed
\* in the very step that takes the count of that block from 1 to 0.
C1_FreedWhenCountDropsToZero ==
    [][\A b \in Blocks :
          (kind[b] = "object" /\ cnt[b] = 1 /\ cnt'[b] = 0)
              => (objFrees'[b] = 1 /\ blockFrees'[b] = 1)]_vars

\* C2: the count stored in a control block created by SharedPtr(pointer)
\* equals the number of live instances that reference the block.
C2_CountEqualsOwners ==
    \A b \in Blocks :
        (kind[b] = "object" /\ blockFrees[b] = 0) => cnt[b] = Cardinality(Owners(b))

\* C7: copy-constructing b from a, or copy-assigning b = a (b distinct), where
\* a owns an object and reads use_count() = k: a and b then hold the same
\* pointer and the same control block, and every co-owner reads k + 1.
C7_CopySharesAndIncrements ==
    [][lastOp' \in {"copy_construct", "copy_assign"} =>
        \A a, b \in SeqInst :
          (/\ a # b
           /\ pointer[a] # NULL
           /\ IF lastOp' = "copy_construct"
              THEN CopyConstruct(b, a) ELSE CopyAssign(b, a))
              => (/\ ~crashed'
                  /\ live'[a] /\ live'[b]
                  /\ pointer'[a] = pointer[a] /\ pointer'[b] = pointer[a]
                  /\ count'[a] = count[a] /\ count'[b] = count[a]
                  /\ UseCountOf(count', cnt', a) = UseCount(a) + 1
                  /\ UseCountOf(count', cnt', b) = UseCount(a) + 1
                  /\ \A c \in SeqInst :
                        (live'[c] /\ count'[c] = count[a])
                            => UseCountOf(count', cnt', c) = UseCount(a) + 1)]_vars

\* C7 witness: a copy onto a distinct instance has just run; two live
\* instances hold the same object and block and both read a count >= 2.
C7_Witness ==
    /\ lastOp \in {"copy_construct", "copy_assign"}
    /\ ~crashed
    /\ \E a, b \in SeqInst :
          /\ a # b /\ live[a] /\ live[b]
          /\ pointer[a] # NULL /\ pointer[b] = pointer[a] /\ count[b] = count[a]
          /\ UseCount(a) >= 2 /\ UseCount(b) = UseCount(a)

\* what every move leaves behind: b has a's prior fields, a is empty
MoveTransfers(a, b) ==
    /\ pointer'[b] = pointer[a] /\ count'[b] = count[a]
    /\ pointer'[a] = NULL /\ count'[a] = NULL
    /\ UseCountOf(count', cnt', a) = 0

\* destroying or resetting an instance without control block touches nothing
EmptyReleaseIsInert ==
    lastOp' \in {"destroy", "reset"} =>
        \A a \in SeqInst :
            (/\ count[a] = NULL /\ live[a]
             /\ IF lastOp' = "destroy" THEN Destroy(a) ELSE Reset(a))
                => (cnt' = cnt /\ blockFrees' = blockFrees /\ objFrees' = objFrees)

\* C8 as stated: a move (construct, or assign onto a distinct b) gives b a's
\* prior pointer and block, leaves the count of that block unchanged and
\* leaves a empty; releasing the moved-from a afterwards touches nothing.
C8_MoveLeavesCountUnchanged ==
    [][/\ lastOp' \in {"move_construct", "move_assign"} =>
            \A a, b \in SeqInst :
                (/\ a # b /\ live[a]
                 /\ IF lastOp' = "move_construct"
                    THEN MoveConstruct(b, a) ELSE MoveAssign(b, a))
                    => (/\ MoveTransfers(a, b)
                        /\ count[a] # NULL => cnt'[count[a]] = cnt[count[a]])
       /\ EmptyReleaseIsInert]_vars

\* C8 amended: as above, except that move-assigning onto a b that referenced
\* the same control block as a lowers the count of that block by exactly 1.
C8_MoveTransfersOwnership ==
    [][/\ lastOp' \in {"move_construct", "move_assign"} =>
            \A a, b \in SeqInst :
                (/\ a # b /\ live[a]
                 /\ IF lastOp' = "move_construct"
                    THEN MoveConstruct(b, a) ELSE MoveAssign(b, a))
                    => (/\ MoveTransfers(a, b)
                        /\ count[a] # NULL =>
                              cnt'[count[a]] =
                                  IF lastOp' = "move_assign" /\ count[b] = count[a]
                                  THEN cnt[count[a]] - 1
                                  ELSE cnt[count[a]])
       /\ EmptyReleaseIsInert]_vars

\* C8 witness: a move assignment onto a distinct instance has just run; the
\* target owns an object, the source is alive and empty.
C8_Witness ==
    /\ lastOp = "move_assign"
    /\ \E a, b \in SeqInst :
          /\ a # b /\ live[a] /\ live[b]
          /\ pointer[b] # NULL /\ UseCount(b) >= 1
          /\ pointer[a] = NULL /\ count[a] = NULL

\* C9: b = move(a) with b distinct and b co-owning object X with count k:
\* for k >= 2 the count of X becomes k - 1 and X stays allocated, for k = 1
\* X and its control block are freed in that step.
C9_MoveAssignReleasesPrior ==
    [][lastOp' = "move_assign" =>
        \A a, b \in SeqInst :
          (a # b /\ pointer[b] # NULL /\ MoveAssign(b, a))
              => IF cnt[count[b]] >= 2
                 THEN /\ cnt'[count[b]] = cnt[count[b]] - 1
                      /\ objFrees'[pointer[b]] = 0 /\ blockFrees'[count[b]] = 0
                 ELSE cnt[count[b]] = 1
                          => objFrees'[pointer[b]] = 1 /\ blockFrees'[count[b]] = 1]_vars

\* C10: when k >= 1 instances co-own an object and one of them calls reset(),
\* that instance reads get() = null and use_count() = 0, every remaining
\* co-owner reads k - 1, and the object stays allocated while k - 1 >= 1.
C10_ResetLowersCoOwners ==
    [][lastOp' = "reset" =>
        \A i \in SeqInst :
          (pointer[i] # NULL /\ Reset(i))
              => LET k == Cardinality(Owners(count[i])) IN
                 /\ pointer'[i] = NULL
                 /\ UseCountOf(count', cnt', i) = 0
                 /\ \A j \in Owners(count[i]) \ {i} : UseCountOf(count', cnt', j) = k - 1
                 /\ k - 1 >= 1 => objFrees'[pointer[i]] = 0]_vars

\* C15: a default-constructed instance reads get() = null and use_count() = 0
\* and references a control block allocated in that step, with count 0, that
\* no other instance references; in particular it differs from the block of
\* every other default-constructed instance.
C15_DefaultConstructPrivateBlock ==
    [][lastOp' = "default_construct" =>
        \A i \in SeqInst :
          (~live[i] /\ live'[i])
              => (/\ pointer'[i] = NULL
                  /\ UseCountOf(count', cnt', i) = 0
                  /\ count'[i] # NULL
                  /\ kind[count'[i]] = "none" /\ kind'[count'[i]] = "default"
                  /\ cnt'[count'[i]] = 0
                  /\ blockFrees'[count'[i]] = 0
                  /\ \A j \in AllInst \ {i} : count'[j] # count'[i])]_vars

\* C15 witness: a default construction has just run while another instance,
\* itself default-constructed, is alive; both read get() = null and
\* use_count() = 0 and reference different blocks.
C15_Witness ==
    /\ lastOp = "default_construct"
    /\ \E i, j \in SeqInst :
          /\ i # j /\ live[i] /\ live[j]
          /\ count[i] # NULL /\ count[j] # NULL /\ count[i] # count[j]
          /\ kind[count[i]] = "default" /\ kind[count[j]] = "default"
          /\ Get(i) = NULL /\ Get(j) = NULL
          /\ UseCount(i) = 0 /\ UseCount(j) = 0

\* C16: an instance that holds no object (get() is null) reports
\* use_count() = 0.
C16_EmptyUseCountIsZero ==
    \A i \in SeqInst : (live[i] /\ Get(i) = NULL) => UseCount(i) = 0

\* C18: copy-constructing or copy-assigning from a live instance whose
\* control-block reference is cleared (reset or moved-from) dereferences no
\* absent control block, and the copy ends up empty with use_count() = 0.
C18_CopyFromEmptyIsSafe ==
    [][lastOp' \in {"copy_construct", "copy_assign"} =>
        \A a, b \in SeqInst :
          (a # b /\ count[a] = NULL /\ (CopyConstruct(b, a) \/ CopyAssign(b, a)))
              => (/\ ~crashed'
                  /\ live'[b]
                  /\ pointer'[b] = NULL
                  /\ UseCountOf(count', cnt', b) = 0)]_vars

\* C20: b = a (a distinct) releases the control block b referenced before:
\* its count is decremented, and it is freed if b was its only owner; once
\* every instance is destroyed no control block allocated by a default
\* constructor remains unfreed.
C20_CopyAssignReleasesPrior ==
    [][/\ lastOp' = "copy_assign" =>
            \A a, b \in SeqInst :
              (a # b /\ count[a] # NULL /\ count[b] # NULL /\ CopyAssign(b, a))
                  => (/\ count[b] # count[a] => cnt'[count[b]] = cnt[count[b]] - 1
                      /\ Owners(count[b]) = {b} => blockFrees'[count[b]] = 1)
       /\ (\A i \in SeqInst : ~live'[i])
            => \A k \in 1..nblocks' : kind'[k] = "default" => blockFrees'[k] = 1]_vars

\* ----- concurrent client ---------------------------------------------------
\* test.cpp ThreadSafty: main constructs ptr, starts NThreads threads running
\* thread_func_copy(ptr, Copies) on their own copy of ptr, joins them and reads
\* ptr.use_count().  Member functions are split at their accesses to the shared
\* heap: the atomic fetch_add / fetch_sub is one step, the deletes that follow
\* a fetch_sub are another.  While the threads run, main may also release its
\* own ptr (ptr.reset(), or ptr = std::move(tmp) with tmp default-constructed).

\* the fields of instance i after its destructor has run
Gone(i) ==
    /\ live' = [live EXCEPT ![i] = FALSE]
    /\ pointer' = [pointer EXCEPT ![i] = NULL]
    /\ count' = [count EXCEPT ![i] = NULL]

\* reset(): pointer = nullptr; count = nullptr
Cleared(i) ==
    /\ pointer' = [pointer EXCEPT ![i] = NULL]
    /\ count' = [count EXCEPT ![i] = NULL]
    /\ UNCHANGED live

\* operator=(SharedPtr&&): the four assignments after the release
Adopted(i, other) ==
    /\ pointer' = [pointer EXCEPT ![i] = pointer[other], ![other] = NULL]
    /\ count' = [count EXCEPT ![i] = count[other], ![other] = NULL]
    /\ UNCHANGED live

\* `{ delete pointer; delete count; }` of instance i
Deletes(i) ==
    /\ blockFrees' = DeleteCount(i)
    /\ objFrees' = DeletePointer(i)

\* SharedPtr<TypeParam> ptr(new TypeParam(...)), or a default-constructed ptr
MainConstruct ==
    /\ mpc = "construct"
    /\ (Construct(MainInst) \/ DefaultConstruct(MainInst))
    /\ mpc' = "spawn"
    /\ UNCHANGED <<tpc, titer>>

\* std::thread threadN(thread_func_copy, ptr, n): the argument is copied from
\* ptr by the main thread, the thread starts with that copy as its parameter
MainSpawn(t) ==
    /\ mpc = "spawn" /\ tpc[t] = "unborn"
    /\ \A u \in Threads : u < t => tpc[u] # "unborn"
    /\ CopyConstruct(ParamInst(t), MainInst)
    /\ tpc' = [tpc EXCEPT ![t] = "loop"]
    /\ mpc' = IF t = NThreads THEN "running" ELSE "spawn"
    /\ UNCHANGED titer

\* for (i < copies) SharedPtr<T> local_ptr = ptr;
ThreadCopy(t) ==
    /\ tpc[t] = "loop" /\ titer[t] < Copies
    /\ CopyConstruct(LocalInst(t), ParamInst(t))
    /\ tpc' = [tpc EXCEPT ![t] = "local_dtor"]
    /\ UNCHANGED <<mpc, titer>>

\* end of the loop body: ~SharedPtr() of local_ptr, up to its fetch_sub
ThreadLocalRelease(t) ==
    /\ tpc[t] = "local_dtor" /\ ~crashed
    /\ cnt' = ReleaseCnt(LocalInst(t))
    /\ lastOp' = "destroy"
    /\ IF ReleaseDeletes(LocalInst(t))
       THEN /\ tpc' = [tpc EXCEPT ![t] = "local_delete"]
            /\ UNCHANGED <<live, pointer, count, titer>>
       ELSE /\ Gone(LocalInst(t))
            /\ titer' = [titer EXCEPT ![t] = @ + 1]
            /\ tpc' = [tpc EXCEPT ![t] = "loop"]
    /\ UNCHANGED <<mpc, nblocks, kind, blockFrees, objFrees, crashed>>

\* loop finished, thread_func_copy returns: ~SharedPtr() of the parameter
ThreadParamRelease(t) ==
    /\ tpc[t] = "loop" /\ titer[t] = Copies /\ ~crashed
    /\ cnt' = ReleaseCnt(ParamInst(t))
    /\ lastOp' = "destroy"
    /\ IF ReleaseDeletes(ParamInst(t))
       THEN /\ tpc' = [tpc EXCEPT ![t] = "param_delete"]
            /\ UNCHANGED <<live, pointer, count>>
       ELSE /\ Gone(ParamInst(t))
            /\ tpc' = [tpc EXCEPT ![t] = "done"]
    /\ UNCHANGED <<mpc, titer, nblocks, kind, blockFrees, objFrees, crashed>>

\* the instance whose destructor thread t is running
Dying(t) == IF tpc[t] = "local_delete" THEN LocalInst(t) ELSE ParamInst(t)

\* ~SharedPtr() of local_ptr or of the parameter: the deletes
ThreadDelete(t) ==
    /\ tpc[t] \in {"local_delete", "param_delete"}
    /\ Deletes(Dying(t))
    /\ Gone(Dying(t))
    /\ titer' = [titer EXCEPT ![t] = IF tpc[t] = "local_delete" THEN @ + 1 ELSE @]
    /\ tpc' = [tpc EXCEPT ![t] = IF tpc[t] = "local_delete" THEN "loop" ELSE "done"]
    /\ UNCHANGED <<mpc, cnt, nblocks, kind, crashed, lastOp>>

\* SharedPtr<T> tmp; in the main thread
MainMakeTmp ==
    /\ mpc = "running" /\ HasRoom
    /\ DefaultConstruct(TmpInst)
    /\ UNCHANGED threadVars

\* ptr.reset() in the main thread, up to its fetch_sub
MainResetRelease ==
    /\ mpc = "running" /\ ~crashed /\ count[MainInst] # NULL
    /\ cnt' = ReleaseCnt(MainInst)
    /\ lastOp' = "reset"
    /\ IF ReleaseDeletes(MainInst)
       THEN /\ mpc' = "reset_delete"
            /\ UNCHANGED <<live, pointer, count>>
       ELSE /\ Cleared(MainInst)
            /\ mpc' = "running"
    /\ UNCHANGED <<tpc, titer, nblocks, kind, blockFrees, objFrees, crashed>>

MainResetDelete ==
    /\ mpc = "reset_delete"
    /\ Deletes(MainInst)
    /\ Cleared(MainInst)
    /\ mpc' = "running"
    /\ UNCHANGED <<tpc, titer, cnt, nblocks, kind, crashed, lastOp>>

\* ptr = std::move(tmp) in the main thread, up to its fetch_sub
MainMoveAssignRelease ==
    /\ mpc = "running" /\ ~crashed
    /\ live[TmpInst] /\ count[TmpInst] # NULL /\ count[MainInst] # NULL
    /\ cnt' = ReleaseCnt(MainInst)
    /\ lastOp' = "move_assign"
    /\ IF ReleaseDeletes(MainInst)
       THEN /\ mpc' = "move_delete"
            /\ UNCHANGED <<live, pointer, count>>
       ELSE /\ Adopted(MainInst, TmpInst)
            /\ mpc' = "running"
    /\ UNCHANGED <<tpc, titer, nblocks, kind, blockFrees, objFrees, crashed>>

MainMoveAssignDelete ==
    /\ mpc = "move_delete"
    /\ Deletes(MainInst)
    /\ Adopted(MainInst, TmpInst)
    /\ mpc' = "running"
    /\ UNCHANGED <<tpc, titer, cnt, nblocks, kind, crashed, lastOp>>

\* thread1.join(); thread2.join();
MainJoin ==
    /\ mpc = "running"
    /\ \A t \in Threads : tpc[t] = "done"
    /\ mpc' = "joined"
    /\ UNCHANGED <<sharedVars, tpc, titer>>

\* end of the test body: the destructors of main's instances
MainDestroy(i) ==
    /\ mpc = "joined"
    /\ Destroy(i)
    /\ UNCHANGED threadVars

NextThreads ==
    \/ MainConstruct /\ UNCHANGED <<uniqueVars, testVars>>
    \/ \E t \in Threads : MainSpawn(t) /\ UNCHANGED <<uniqueVars, testVars>>
    \/ \E t \in Threads : ThreadCopy(t) /\ UNCHANGED <<uniqueVars, testVars>>
    \/ \E t \in Threads : ThreadLocalRelease(t) /\ UNCHANGED <<uniqueVars, testVars>>
    \/ \E t \in Threads : ThreadParamRelease(t) /\ UNCHANGED <<uniqueVars, testVars>>
    \/ \E t \in Threads : ThreadDelete(t) /\ UNCHANGED <<uniqueVars, testVars>>
    \/ MainMakeTmp /\ UNCHANGED <<uniqueVars, testVars>>
    \/ MainResetRelease /\ UNCHANGED <<uniqueVars, testVars>>
    \/ MainResetDelete /\ UNCHANGED <<uniqueVars, testVars>>
    \/ MainMoveAssignRelease /\ UNCHANGED <<uniqueVars, testVars>>
    \/ MainMoveAssignDelete /\ UNCHANGED <<uniqueVars, testVars>>
    \/ MainJoin /\ UNCHANGED <<uniqueVars, testVars>>
    \/ \E i \in {MainInst, TmpInst} : MainDestroy(i) /\ UNCHANGED <<uniqueVars, testVars>>

SpecThreads == Init /\ [][NextThreads]_vars

\* C3: once every thread has made its Copies copies, destroyed each of them
\* and destroyed its own instance, the original, still owning the object,
\* reads use_count() = 1 and neither the object nor its block has been freed.
C3_CountBackToOneAfterJoin ==
    (mpc = "joined" /\ live[MainInst] /\ pointer[MainInst] # NULL)
        => (/\ UseCount(MainInst) = 1
            /\ objFrees[pointer[MainInst]] = 0
            /\ blockFrees[count[MainInst]] = 0)

\* C3 witness: the threads are joined after all their copies and the original
\* still owns its object.
C3_Witness ==
    /\ mpc = "joined" /\ live[MainInst] /\ pointer[MainInst] # NULL
    /\ \A t \in Threads : titer[t] = Copies /\ tpc[t] = "done"
    /\ UseCount(MainInst) = 1

\* C4: no object and no control block is freed more than once.
C4_NoDoubleFree ==
    \A b \in Blocks : blockFrees[b] <= 1 /\ objFrees[b] <= 1

\* C4 witness: main and every thread have released their references to the
\* same control block while the threads were running (main before the join),
\* and the block has been freed.
C4_Witness ==
    /\ mpc = "running"
    /\ count[MainInst] = NULL
    /\ \A t \in Threads : tpc[t] = "done"
    /\ blockFrees[1] = 1

\* C19: no live instance holds a pointer to a freed object or a reference to
\* a freed control block.
C19_NoDanglingReference ==
    \A i \in AllInst :
        live[i] => /\ count[i] # NULL => blockFrees[count[i]] = 0
                   /\ pointer[i] # NULL => objFrees[pointer[i]] = 0

\* C19 witness: a control block has been freed by the last of the instances
\* that referenced it, the threads' and main's, while another instance is
\* alive and references a block of its own.
C19_Witness ==
    \E b \in Blocks :
        /\ blockFrees[b] = 1 /\ Owners(b) = {}
        /\ \A t \in Threads : tpc[t] = "done" /\ titer[t] = Copies
        /\ \E i \in AllInst : live[i] /\ count[i] # NULL /\ count[i] # b

\* ----- UniquePtr -------------------------------------------------------------

\* T* UniquePtr::get()
UGet(i) == uPointer[i]

\* `delete pointer;` of instance i (deleting nullptr does nothing)
UDelete(i) ==
    IF uPointer[i] # NULL THEN [uFrees EXCEPT ![uPointer[i]] = @ + 1] ELSE uFrees

\* UniquePtr(): pointer = nullptr
UDefaultConstruct(i) ==
    /\ ~uLive[i]
    /\ uLive' = [uLive EXCEPT ![i] = TRUE]
    /\ uPointer' = [uPointer EXCEPT ![i] = NULL]
    /\ uLastOp' = UOp("default_construct", i, 0, NULL)
    /\ UNCHANGED <<uNext, uFrees, uReleased>>

\* UniquePtr(T* pointer): the caller passes nullptr or a fresh object
UConstruct(i, isNull) ==
    /\ ~uLive[i]
    /\ uLive' = [uLive EXCEPT ![i] = TRUE]
    /\ uPointer' = [uPointer EXCEPT ![i] = IF isNull THEN NULL ELSE uNext + 1]
    /\ uNext' = IF isNull THEN uNext ELSE uNext + 1
    /\ uLastOp' = UOp("construct", i, 0, NULL)
    /\ UNCHANGED <<uFrees, uReleased>>

\* a move constructor that forgets to clear other.pointer
UMoveConstructKeepsSource(i, other) ==
    /\ ~uLive[i] /\ uLive[other]
    /\ uLive' = [uLive EXCEPT ![i] = TRUE]
    /\ uPointer' = [uPointer EXCEPT ![i] = uPointer[other]]
    /\ uLastOp' = UOp("move_construct", i, other, NULL)
    /\ UNCHANGED <<uNext, uFrees, uReleased>>

\* UniquePtr(UniquePtr&& other): pointer = other.pointer; other.pointer = nullptr
UMoveConstruct(i, other) ==
    /\ ~uLive[i] /\ uLive[other]
    /\ uLive' = [uLive EXCEPT ![i] = TRUE]
    /\ uPointer' = [uPointer EXCEPT ![i] = uPointer[other], ![other] = NULL]
    /\ uLastOp' = UOp("move_construct", i, other, NULL)
    /\ UNCHANGED <<uNext, uFrees, uReleased>>

\* a move assignment that forgets `other.pointer = nullptr`
UMoveAssignKeepsSource(i, other) ==
    /\ uLive[i] /\ uLive[other]
    /\ uLastOp' = UOp("move_assign", i, other, NULL)
    /\ IF i = other
       THEN UNCHANGED <<uLive, uPointer, uNext, uFrees, uReleased>>
       ELSE /\ uFrees' = UDelete(i)
            /\ uPointer' = [uPointer EXCEPT ![i] = uPointer[other]]
            /\ UNCHANGED <<uLive, uNext, uReleased>>

\* a move assignment that forgets `delete pointer`
UMoveAssignLeaks(i, other) ==
    /\ uLive[i] /\ uLive[other]
    /\ uLastOp' = UOp("move_assign", i, other, NULL)
    /\ IF i = other
       THEN UNCHANGED <<uLive, uPointer, uNext, uFrees, uReleased>>
       ELSE /\ uPointer' = [uPointer EXCEPT ![i] = uPointer[other], ![other] = NULL]
            /\ UNCHANGED <<uLive, uNext, uFrees, uReleased>>

\* operator=(UniquePtr&& other): self check; delete pointer; take other's; null other's
UMoveAssign(i, other) ==
    /\ uLive[i] /\ uLive[other]
    /\ uLastOp' = UOp("move_assign", i, other, NULL)
    /\ IF i = other
       THEN UNCHANGED <<uLive, uPointer, uNext, uFrees, uReleased>>
       ELSE /\ uFrees' = UDelete(i)
            /\ uPointer' = [uPointer EXCEPT ![i] = uPointer[other], ![other] = NULL]
            /\ UNCHANGED <<uLive, uNext, uReleased>>

\* ~UniquePtr(): delete pointer
UDestroy(i) ==
    /\ uLive[i]
    /\ uFrees' = UDelete(i)
    /\ uLive' = [uLive EXCEPT ![i] = FALSE]
    /\ uPointer' = [uPointer EXCEPT ![i] = NULL]
    /\ uLastOp' = UOp("destroy", i, 0, NULL)
    /\ UNCHANGED <<uNext, uReleased>>

\* reset(): delete pointer; pointer = nullptr
UReset(i) ==
    /\ uLive[i]
    /\ uFrees' = UDelete(i)
    /\ uPointer' = [uPointer EXCEPT ![i] = NULL]
    /\ uLastOp' = UOp("reset", i, 0, NULL)
    /\ UNCHANGED <<uLive, uNext, uReleased>>

\* a release() that forgets `pointer = nullptr`
UReleaseKeepsPointer(i) ==
    /\ uLive[i]
    /\ uReleased' = IF uPointer[i] # NULL
                    THEN [uReleased EXCEPT ![uPointer[i]] = TRUE] ELSE uReleased
    /\ uLastOp' = UOp("release", i, 0, uPointer[i])
    /\ UNCHANGED <<uLive, uPointer, uNext, uFrees>>

\* release(): temp = pointer; pointer = nullptr; return temp
URelease(i) ==
    /\ uLive[i]
    /\ uPointer' = [uPointer EXCEPT ![i] = NULL]
    /\ uReleased' = IF uPointer[i] # NULL
                    THEN [uReleased EXCEPT ![uPointer[i]] = TRUE] ELSE uReleased
    /\ uLastOp' = UOp("release", i, 0, uPointer[i])
    /\ UNCHANGED <<uLive, uNext, uFrees>>

\* the client stops creating objects once MaxUObjs exist
UHasRoom == uNext < MaxUObjs

NextUnique ==
    \/ \E i \in UInst : UDefaultConstruct(i) /\ UNCHANGED <<sharedVars, threadVars, testVars>>
    \/ \E i \in UInst, isNull \in BOOLEAN :
          (isNull \/ UHasRoom) /\ UConstruct(i, isNull) /\ UNCHANGED <<sharedVars, threadVars, testVars>>
    \/ \E i, o \in UInst : UMoveConstruct(i, o) /\ UNCHANGED <<sharedVars, threadVars, testVars>>
    \/ \E i, o \in UInst : UMoveAssign(i, o) /\ UNCHANGED <<sharedVars, threadVars, testVars>>
    \/ \E i \in UInst : UDestroy(i) /\ UNCHANGED <<sharedVars, threadVars, testVars>>
    \/ \E i \in UInst : UReset(i) /\ UNCHANGED <<sharedVars, threadVars, testVars>>
    \/ \E i \in UInst : URelease(i) /\ UNCHANGED <<sharedVars, threadVars, testVars>>

SpecUnique == Init /\ [][NextUnique]_vars

\* C5: no two live UniquePtr instances hold the same non-null pointer, and no
\* live instance holds a pointer to an object that has been freed.
C5_ExclusiveOwner ==
    /\ \A i, j \in UInst :
          (i # j /\ uLive[i] /\ uLive[j] /\ uPointer[i] # NULL) => uPointer[i] # uPointer[j]
    /\ \A i \in UInst :
          (uLive[i] /\ uPointer[i] # NULL) => uFrees[uPointer[i]] = 0

\* C5 witness: a move assignment has just handed an object to a distinct
\* instance that owned another object before, which is freed now.
C5_Witness ==
    /\ uLastOp.op = "move_assign" /\ uLastOp.dst # uLastOp.src
    /\ uPointer[uLastOp.dst] # NULL
    /\ uLive[uLastOp.src] /\ uPointer[uLastOp.src] = NULL
    /\ \E o \in UObjs : uFrees[o] = 1

\* C6: no object is freed twice, and once every instance is destroyed each
\* object handed to a constructor has been freed exactly once, unless
\* release() detached it, in which case the pointer never freed it.
C6_FreedOnceUnlessReleased ==
    /\ \A o \in UObjs : uFrees[o] <= 1
    /\ \A o \in UObjs : uReleased[o] => uFrees[o] = 0
    /\ (\A i \in UInst : ~uLive[i])
          => \A o \in 1..uNext : uFrees[o] = IF uReleased[o] THEN 0 ELSE 1

\* C6 witness: every instance is destroyed, one object was detached by
\* release() and another was freed.
C6_Witness ==
    /\ uLastOp.op = "destroy"
    /\ \A i \in UInst : ~uLive[i]
    /\ \E o \in 1..uNext : uReleased[o]
    /\ \E o \in 1..uNext : uFrees[o] = 1

\* C12: move-constructing b from a, or move-assigning b = std::move(a) with b
\* distinct, leaves b holding exactly the pointer a held and a holding none;
\* the transferred object is not freed, and the only object freed in the step
\* is the one b owned before a move assignment.
C12_UMoveTransfers ==
    [][(\/ uLastOp'.op = "move_construct"
        \/ uLastOp'.op = "move_assign" /\ uLastOp'.dst # uLastOp'.src)
          => LET a == uLastOp'.src
                 b == uLastOp'.dst
             IN /\ (UMoveConstruct(b, a) \/ UMoveAssign(b, a))
                    => (/\ uPointer'[b] = uPointer[a]
                        /\ uPointer'[a] = NULL
                        /\ \A c \in UInst \ {a, b} : uPointer'[c] = uPointer[c]
                        /\ \A o \in UObjs :
                              uFrees'[o] =
                                  IF uLastOp'.op = "move_assign" /\ o = uPointer[b]
                                  THEN uFrees[o] + 1
                                  ELSE uFrees[o]
                        /\ uPointer[a] # NULL => uFrees'[uPointer[a]] = 0)]_vars

\* C12 witness: a move assignment has just handed a's object to a distinct b
\* that owned another object, which is freed now; a is alive and empty.
C12_Witness ==
    /\ uLastOp.op = "move_assign" /\ uLastOp.dst # uLastOp.src
    /\ uLive[uLastOp.src] /\ UGet(uLastOp.src) = NULL
    /\ UGet(uLastOp.dst) # NULL /\ uFrees[UGet(uLastOp.dst)] = 0
    /\ \E o \in UObjs : o # UGet(uLastOp.dst) /\ uFrees[o] = 1 /\ ~uReleased[o]

\* C14: release() returns exactly the pointer the instance held, leaves the
\* instance empty and frees nothing; an object release() has detached is never
\* freed by any later operation.
C14_ReleaseDetaches ==
    [][/\ uLastOp'.op = "release" =>
            LET i == uLastOp'.dst
            IN URelease(i) =>
                  (/\ uLastOp'.ret = UGet(i)
                   /\ uPointer'[i] = NULL
                   /\ uFrees' = uFrees)
       /\ \A o \in UObjs : uReleased[o] => uFrees'[o] = 0]_vars

\* C14 witness: release() has just returned the object the instance held, and
\* an instance that released an object earlier has since been destroyed.
C14_Witness ==
    /\ uLastOp.op = "release" /\ uLastOp.ret # NULL
    /\ uLive[uLastOp.dst] /\ UGet(uLastOp.dst) = NULL
    /\ uReleased[uLastOp.ret] /\ uFrees[uLastOp.ret] = 0
    /\ \E i \in UInst : ~uLive[i]
    /\ \E o \in UObjs : o # uLastOp.ret /\ uReleased[o] /\ uFrees[o] = 0

\* ----- test client -------------------------------------------------------------
\* shared_ptr/test.cpp MoveAssignmentRefrence1, SelfCopyAssignment,
\* SelfMoveAssignment and unique_ptr/test.cpp MoveAssignmentRefrence,
\* SelfMoveAssignment.  Each test body declares ptr (owning a new object),
\* ptr1 and ptr2 (default-constructed), runs ptr2 = std::move(ptr1 = std::move(ptr))
\* and leaves its scope; a self-assignment p = p or p = std::move(p) may run
\* between any two statements.  The two bodies are independent of each other.

\* the three instances of a test body
Ptr == 1
Ptr1 == 2
Ptr2 == 3
TestInst == {Ptr, Ptr1, Ptr2}

\* SharedPtr<TypeParam> ptr(new TypeParam(...)); SharedPtr<TypeParam> ptr1; ... ptr2;
TestDeclare ==
    /\ \/ spc = "start" /\ Construct(Ptr) /\ spc' = "ptr"
       \/ spc = "ptr" /\ DefaultConstruct(Ptr1) /\ spc' = "ptr1"
       \/ spc = "ptr1" /\ DefaultConstruct(Ptr2) /\ spc' = "declared"
    /\ UNCHANGED upc

\* the inner assignment of the chain: ptr1 = std::move(ptr)
TestInner ==
    /\ spc = "declared"
    /\ MoveAssign(Ptr1, Ptr)
    /\ spc' = "inner"
    /\ UNCHANGED upc

\* the outer assignment of the chain: ptr2 = std::move(<ptr1>)
TestOuter ==
    /\ spc = "inner"
    /\ MoveAssign(Ptr2, Ptr1)
    /\ spc' = "outer"
    /\ UNCHANGED upc

\* ptr = ptr; on a declared instance, between two statements
TestSelfCopy(i) ==
    /\ spc \in {"ptr", "ptr1", "declared", "outer"}
    /\ CopyAssign(i, i)
    /\ UNCHANGED testVars

\* ptr = std::move(ptr); on a declared instance, between two statements
TestSelfMove(i) ==
    /\ spc \in {"ptr", "ptr1", "declared", "outer"}
    /\ MoveAssign(i, i)
    /\ UNCHANGED testVars

\* end of the test body: the destructors run in reverse order of declaration
TestScopeEnd ==
    /\ \/ spc = "outer" /\ Destroy(Ptr2) /\ spc' = "ptr2_gone"
       \/ spc = "ptr2_gone" /\ Destroy(Ptr1) /\ spc' = "ptr1_gone"
       \/ spc = "ptr1_gone" /\ Destroy(Ptr) /\ spc' = "done"
    /\ UNCHANGED upc

\* UniquePtr<TypeParam> ptr(new TypeParam(...)); UniquePtr<TypeParam> ptr1; ... ptr2;
UTestDeclare ==
    /\ \/ upc = "start" /\ UConstruct(Ptr, FALSE) /\ upc' = "ptr"
       \/ upc = "ptr" /\ UDefaultConstruct(Ptr1) /\ upc' = "ptr1"
       \/ upc = "ptr1" /\ UDefaultConstruct(Ptr2) /\ upc' = "declared"
    /\ UNCHANGED spc

\* ptr1 = std::move(ptr)
UTestInner ==
    /\ upc = "declared"
    /\ UMoveAssign(Ptr1, Ptr)
    /\ upc' = "inner"
    /\ UNCHANGED spc

\* ptr2 = std::move(<ptr1>)
UTestOuter ==
    /\ upc = "inner"
    /\ UMoveAssign(Ptr2, Ptr1)
    /\ upc' = "outer"
    /\ UNCHANGED spc

\* ptr = std::move(ptr); on a declared instance, between two statements
UTestSelfMove(i) ==
    /\ upc \in {"ptr", "ptr1", "declared", "outer"}
    /\ UMoveAssign(i, i)
    /\ UNCHANGED testVars

\* end of the test body
UTestScopeEnd ==
    /\ \/ upc = "outer" /\ UDestroy(Ptr2) /\ upc' = "ptr2_gone"
       \/ upc = "ptr2_gone" /\ UDestroy(Ptr1) /\ upc' = "ptr1_gone"
       \/ upc = "ptr1_gone" /\ UDestroy(Ptr) /\ upc' = "done"
    /\ UNCHANGED spc

NextTests ==
    \/ TestDeclare /\ UNCHANGED <<threadVars, uniqueVars>>
    \/ TestInner /\ UNCHANGED <<threadVars, uniqueVars>>
    \/ TestOuter /\ UNCHANGED <<threadVars, uniqueVars>>
    \/ \E i \in TestInst : TestSelfCopy(i) /\ UNCHANGED <<threadVars, uniqueVars>>
    \/ \E i \in TestInst : TestSelfMove(i) /\ UNCHANGED <<threadVars, uniqueVars>>
    \/ TestScopeEnd /\ UNCHANGED <<threadVars, uniqueVars>>
    \/ UTestDeclare /\ UNCHANGED <<sharedVars, threadVars>>
    \/ UTestInner /\ UNCHANGED <<sharedVars, threadVars>>
    \/ UTestOuter /\ UNCHANGED <<sharedVars, threadVars>>
    \/ \E i \in TestInst : UTestSelfMove(i) /\ UNCHANGED <<sharedVars, threadVars>>
    \/ UTestScopeEnd /\ UNCHANGED <<sharedVars, threadVars>>

SpecTests == Init /\ [][NextTests]_vars

\* C11: self-assignment is a no-op on both pointer types: p = p and
\* p = std::move(p) on a SharedPtr, and p = std::move(p) on a UniquePtr, leave
\* every pointer, control-block reference and count as before and free nothing.
C11_SelfAssignIsNoOp ==
    [][/\ lastOp' \in {"self_copy_assign", "self_move_assign"} =>
            UNCHANGED <<live, pointer, count, cnt, nblocks, kind, blockFrees, objFrees, crashed>>
       /\ (uLastOp'.op = "move_assign" /\ uLastOp'.dst = uLastOp'.src) =>
            UNCHANGED <<uLive, uPointer, uNext, uFrees, uReleased>>]_vars

\* C11 witness: ptr = ptr has just run on the SharedPtr that owns the object
\* and ptr = std::move(ptr) on the UniquePtr that owns the object; both still
\* own it.
C11_Witness ==
    /\ spc = "ptr" /\ lastOp = "self_copy_assign"
    /\ Get(Ptr) # NULL /\ UseCount(Ptr) = 1 /\ objFrees[Get(Ptr)] = 0
    /\ uLastOp.op = "move_assign" /\ uLastOp.dst = Ptr /\ uLastOp.src = Ptr
    /\ UGet(Ptr) # NULL /\ uFrees[UGet(Ptr)] = 0

\* instance i reads the same before and after the step
SameInstance(i) ==
    /\ live'[i] = live[i]
    /\ pointer'[i] = pointer[i] /\ count'[i] = count[i]
    /\ UseCountOf(count', cnt', i) = UseCount(i)

USameInstance(i) == uLive'[i] = uLive[i] /\ uPointer'[i] = uPointer[i]

\* the state the SharedPtr chain must end in
ChainDone ==
    /\ live[Ptr] /\ Get(Ptr) = NULL /\ UseCount(Ptr) = 0
    /\ live[Ptr1] /\ Get(Ptr1) = NULL /\ UseCount(Ptr1) = 0
    /\ live[Ptr2] /\ Get(Ptr2) # NULL /\ UseCount(Ptr2) = 1
    /\ objFrees[Get(Ptr2)] = 0

\* the state the UniquePtr chain must end in
UChainDone ==
    /\ uLive[Ptr] /\ UGet(Ptr) = NULL
    /\ uLive[Ptr1] /\ UGet(Ptr1) = NULL
    /\ uLive[Ptr2] /\ UGet(Ptr2) # NULL
    /\ uFrees[UGet(Ptr2)] = 0

\* C13: in ptr2 = std::move(ptr1 = std::move(ptr)) with ptr owning an object
\* and ptr1, ptr2 default-constructed, on either pointer type, the inner
\* assignment leaves ptr2 as it was and hands ptr's object to ptr1, the outer
\* leaves ptr as it was and hands that object to ptr2, and at the end ptr and
\* ptr1 are empty and ptr2 holds the object (SharedPtr: use_count() 1), unfreed.
C13_ChainedMoveAssignment ==
    [][/\ (spc = "declared" /\ spc' = "inner") =>
            (SameInstance(Ptr2) /\ pointer[Ptr] # NULL /\ pointer'[Ptr1] = pointer[Ptr])
       /\ (spc = "inner" /\ spc' = "outer") =>
            (SameInstance(Ptr) /\ pointer'[Ptr2] = pointer[Ptr1] /\ ChainDone')
       /\ (upc = "declared" /\ upc' = "inner") =>
            (USameInstance(Ptr2) /\ uPointer[Ptr] # NULL /\ uPointer'[Ptr1] = uPointer[Ptr])
       /\ (upc = "inner" /\ upc' = "outer") =>
            (USameInstance(Ptr) /\ uPointer'[Ptr2] = uPointer[Ptr1] /\ UChainDone')]_vars

\* C13 witness: both chains have just run their outer assignment and ptr2
\* holds the object on both pointer types.
C13_Witness ==
    /\ spc = "outer" /\ lastOp = "move_assign"
    /\ upc = "outer" /\ uLastOp.op = "move_assign"
    /\ uLastOp.dst = Ptr2 /\ uLastOp.src = Ptr1
    /\ Get(Ptr2) # NULL /\ UseCount(Ptr2) = 1
    /\ UGet(Ptr2) # NULL

=============================================================================
